---- MODULE Spec2Model ----
(***************************************************************************)
(* jsonval.py: a regular-expression lexer for a simplified JSON dialect    *)
(* (lex) and a bracket validator (validate).                               *)
(*                                                                         *)
(* A source document is a sequence of one-character strings.  One run     *)
(* drains the generator lex(src), one loop iteration per step, and then    *)
(* calls validate(src) on the same document.                               *)
(***************************************************************************)
EXTENDS Integers, Sequences, FiniteSets, TLC

\* ------------------------------------------------------------------------
\* Bounds and the input alphabet
\* ------------------------------------------------------------------------

\* Documents over the whole alphabet are the concatenation of at most
\* MaxPieces pieces.
MaxPieces == 3

\* Documents over one of the small alphabets (brackets, strings, numbers)
\* are the concatenation of at most MaxFocus pieces.
MaxFocus == 5

Quote == "\""
Newline == "\n"

\* The building blocks of the documents that are explored.  "x" is a
\* character no rule starts with; it may occur inside a string.
Pieces ==
  { <<"t","r","u","e">>, <<"f","a","l","s","e">>,
    <<Quote>>, <<"x">>, <<Newline>>, <<" ">>,
    <<":">>, <<"[">>, <<"{">>, <<"]">>, <<"}">>, <<",">>,
    <<"1">>, <<".">>, <<"-">> }

\* Deeper documents: nested brackets around a number, quoted text over
\* more than one line, and runs of number characters.
BracketPieces == { <<"[">>, <<"{">>, <<"]">>, <<"}">>, <<"1">> }
StringPieces == { <<Quote>>, <<"x">>, <<Newline>> }
NumberPieces == { <<"1">>, <<".">>, <<"-">> }

RECURSIVE Docs(_, _)
Docs(P, n) ==
  IF n = 0 THEN { <<>> }
  ELSE LET prev == Docs(P, n - 1)
       IN  prev \cup { d \o p : d \in prev, p \in P }

Documents ==
  Docs(Pieces, MaxPieces) \cup Docs(BracketPieces, MaxFocus)
    \cup Docs(StringPieces, MaxFocus) \cup Docs(NumberPieces, MaxFocus)

\* ------------------------------------------------------------------------
\* Character classes of the re module (str patterns, no flags)
\* ------------------------------------------------------------------------

\* \d
IsDigit(c) == c \in {"0","1","2","3","4","5","6","7","8","9"}

\* [\d\.]
IsNumChar(c) == IsDigit(c) \/ c = "."

\* \s
IsSpace(c) == c \in {" ", "\t", "\n", "\r", "\f"}

\* . (without DOTALL): anything but a newline
IsDot(c) == c # Newline

Max(S) == CHOOSE m \in S : \A k \in S : k <= m
Min(S) == CHOOSE m \in S : \A k \in S : m <= k

\* src[position:]
Suffix(s, pos) == SubSeq(s, pos + 1, Len(s))

\* Membership of a character in a character class of the patterns
InClass(class, c) ==
  CASE class = "dot"    -> IsDot(c)
    [] class = "num"    -> IsNumChar(c)
    [] class = "space"  -> IsSpace(c)

\* Length of the longest run s[from], s[from+1], ... of characters of the
\* class: what a greedy class+ or class* consumes.
RunLen(s, from, class) ==
  LET stop == { j \in from..Len(s) : ~InClass(class, s[j]) }
  IN  IF stop = {} THEN Len(s) - from + 1 ELSE Min(stop) - from

NoMatch == [ok |-> FALSE, len |-> 0, text |-> <<>>]

\* re.match of a one-group literal pattern such as '(:)'
MatchLiteral(s, lit) ==
  IF Len(s) >= Len(lit) /\ SubSeq(s, 1, Len(lit)) = lit
  THEN [ok |-> TRUE, len |-> Len(lit), text |-> lit]
  ELSE NoMatch

\* A string rule that stops at the first closing quote ('\"(.*?)\"').
MatchStringLazy(s) ==
  IF Len(s) = 0 \/ s[1] # Quote THEN NoMatch
  ELSE LET closers == { k \in 2..(1 + RunLen(s, 2, "dot")) : s[k] = Quote }
       IN  IF closers = {} THEN NoMatch
           ELSE [ok |-> TRUE, len |-> Min(closers), text |-> SubSeq(s, 2, Min(closers) - 1)]

\* re.match('\"(.*)\"', s): the opening quote, a greedy run of non-newline
\* characters, backtracked to the last quote inside that run.
MatchString(s) ==
  IF Len(s) = 0 \/ s[1] # Quote THEN NoMatch
  ELSE LET run == RunLen(s, 2, "dot")
           closers == { k \in 2..(1 + run) : s[k] = Quote }
       IN  IF closers = {} THEN NoMatch
           ELSE LET k == Max(closers)
                IN  [ok |-> TRUE, len |-> k, text |-> SubSeq(s, 2, k - 1)]

\* re.match('(true|false)', s)
MatchBoolean(s) ==
  IF MatchLiteral(s, <<"t","r","u","e">>).ok
  THEN MatchLiteral(s, <<"t","r","u","e">>)
  ELSE MatchLiteral(s, <<"f","a","l","s","e">>)

\* A number rule that takes '-' anywhere in the run ('([\-\d\.]+)').
IsSignedNumChar(c) == IsNumChar(c) \/ c = "-"

SignedRunLen(s, from) ==
  LET stop == { j \in from..Len(s) : ~IsSignedNumChar(s[j]) }
  IN  IF stop = {} THEN Len(s) - from + 1 ELSE Min(stop) - from

MatchNumberRun(s) ==
  IF SignedRunLen(s, 1) = 0 THEN NoMatch
  ELSE [ok |-> TRUE, len |-> SignedRunLen(s, 1), text |-> SubSeq(s, 1, SignedRunLen(s, 1))]

\* re.match('(\-?[\d\.]+)', s)
MatchNumber(s) ==
  LET sign == IF Len(s) > 0 /\ s[1] = "-" THEN 1 ELSE 0
      run  == RunLen(s, sign + 1, "num")
  IN  IF run = 0 THEN NoMatch
      ELSE [ok |-> TRUE, len |-> sign + run, text |-> SubSeq(s, 1, sign + run)]

\* A whitespace rule that also matches the empty prefix ('(\s*)').
MatchSpaceStar(s) ==
  [ok |-> TRUE, len |-> RunLen(s, 1, "space"), text |-> SubSeq(s, 1, RunLen(s, 1, "space"))]

\* re.match('(\s+)', s)
MatchSpace(s) ==
  LET run == RunLen(s, 1, "space")
  IN  IF run = 0 THEN NoMatch
      ELSE [ok |-> TRUE, len |-> run, text |-> SubSeq(s, 1, run)]

\* ------------------------------------------------------------------------
\* The rule table
\* ------------------------------------------------------------------------

\* rule[0] of the whitespace rule
None == "None"

\* rule[0] of each rule, in table order
rules ==
  << "string", "boolean", "assignment", "open_square", "open_curly",
     "close_square", "close_curly", "separator", "number", None >>

\* re.match(rule[1], s) for the i-th rule
Match(i, s) ==
  CASE i = 1  -> MatchString(s)
    [] i = 2  -> MatchBoolean(s)
    [] i = 3  -> MatchLiteral(s, <<":">>)
    [] i = 4  -> MatchLiteral(s, <<"[">>)
    [] i = 5  -> MatchLiteral(s, <<"{">>)
    [] i = 6  -> MatchLiteral(s, <<"]">>)
    [] i = 7  -> MatchLiteral(s, <<"}">>)
    [] i = 8  -> MatchLiteral(s, <<",">>)
    [] i = 9  -> MatchNumber(s)
    [] i = 10 -> MatchSpace(s)

\* The for loop: the index of the first rule that matches s, 0 when the
\* loop runs off the table (the for-else branch).
FirstRule(s) ==
  LET hits == { i \in 1..Len(rules) : Match(i, s).ok }
  IN  IF hits = {} THEN 0 ELSE Min(hits)

\* ------------------------------------------------------------------------
\* Token
\* ------------------------------------------------------------------------

Token(name, value, pos) == [name |-> name, value |-> value, position |-> pos]

\* name.startswith(prefix)
StartsWith(name, prefix) ==
  CASE prefix = "open"  -> name \in {"open_square", "open_curly"}
    [] prefix = "close" -> name \in {"close_square", "close_curly"}

is_opening(tok) == StartsWith(tok.name, "open")

is_closing(tok) == StartsWith(tok.name, "close")

\* name.split('_')[1] for the bracket kinds, None otherwise
bracket_type(tok) ==
  IF is_closing(tok) \/ is_opening(tok)
  THEN IF tok.name \in {"open_square", "close_square"} THEN "square" ELSE "curly"
  ELSE None

\* ------------------------------------------------------------------------
\* validate
\* ------------------------------------------------------------------------

NoToken == Token(None, <<>>, 0)

\* The outcome of a call
Returned == [kind |-> "returned", token |-> NoToken]
Raised(kind, tok) == [kind |-> kind, token |-> tok]
Pending == [kind |-> "pending", token |-> NoToken]

\* The messages of the ValueErrors
NoClosing == "No closing token"
NoOpening == "No opening token"
Unrecognized == "Unrecognized token"

\* A validator that pushes every opening bracket and never pops: it reports
\* the first opening bracket of any document that has one.
validateNeverPops(doc) ==
  LET opens == { i \in 1..Len(doc) : doc[i] \in {"[", "{"} }
  IN  IF opens = {} THEN Returned
      ELSE Raised(NoClosing,
                  Token(IF doc[Min(opens)] = "[" THEN "open_square" ELSE "open_curly",
                        <<doc[Min(opens)]>>, Min(opens) - 1))

\* validate(doc): the function body is its docstring only, so every call
\* returns None.
validate(doc) == Returned

\* ------------------------------------------------------------------------
\* State
\* ------------------------------------------------------------------------

VARIABLES
  src,        \* the document
  position,   \* lex: the cursor
  tokens,     \* the tokens lex has yielded so far
  matches,    \* every successful rule match so far: rule, start, length
  pc,         \* "lex" while the generator runs, then "lexdone" or "lexerror"
  errPos,     \* the position in the ValueError lex raised, -1 if none
  valResult   \* the outcome of validate(src)

vars == <<src, position, tokens, matches, pc, errPos, valResult>>

Init ==
  /\ src \in Documents
  /\ position = 0
  /\ tokens = <<>>
  /\ matches = <<>>
  /\ pc = "lex"
  /\ errPos = -1
  /\ valResult = Pending

\* Advancing by the captured group instead of the whole match.
AdvanceCaptured(m) == Len(m.text)

\* The amount the cursor advances by after a match m
Advance(m) == m.len

\* Storing the cursor after the advance.
TokenPositionAfter(pos, m) == pos + m.len

\* The position stored in the token yielded at cursor pos
TokenPosition(pos, m) == pos

\* Reporting the character after the cursor.
ErrorPositionNext(pos) == pos + 1

\* The position formatted into the ValueError raised at cursor pos
ErrorPosition(pos) == pos

\* One loop iteration in which a rule matches: yield the token unless the
\* rule is the whitespace rule, advance the cursor, break.
LexMatch ==
  /\ pc = "lex"
  /\ position < Len(src)
  /\ \E i \in { FirstRule(Suffix(src, position)) } :
       /\ i # 0
       /\ \E m \in { Match(i, Suffix(src, position)) } :
            /\ tokens' = IF rules[i] # None
                         THEN Append(tokens, Token(rules[i], m.text, TokenPosition(position, m)))
                         ELSE tokens
            /\ matches' = Append(matches, [rule |-> i, start |-> position, len |-> m.len])
            /\ position' = position + Advance(m)
  /\ UNCHANGED <<src, pc, errPos, valResult>>

\* One loop iteration in which no rule matches: raise ValueError.
LexFail ==
  /\ pc = "lex"
  /\ position < Len(src)
  /\ FirstRule(Suffix(src, position)) = 0
  /\ pc' = "lexerror"
  /\ errPos' = ErrorPosition(position)
  /\ UNCHANGED <<src, position, tokens, matches, valResult>>

\* The while condition is false: the generator is exhausted.
LexEnd ==
  /\ pc = "lex"
  /\ ~(position < Len(src))
  /\ pc' = "lexdone"
  /\ UNCHANGED <<src, position, tokens, matches, errPos, valResult>>

\* The call validate(src), made once lex has finished on the document.
Validate ==
  /\ pc \in {"lexdone", "lexerror"}
  /\ valResult = Pending
  /\ valResult' = validate(src)
  /\ UNCHANGED <<src, position, tokens, matches, pc, errPos>>

Next == LexMatch \/ LexFail \/ LexEnd \/ Validate

Spec == Init /\ [][Next]_vars

\* The generator is drained to the end (list(lex(src))) and validate is
\* called: no step that is enabled is postponed forever.
FairSpec == Spec /\ WF_vars(Next)

\* ------------------------------------------------------------------------
\* Vocabulary of the properties
\* ------------------------------------------------------------------------

LexFinished == pc \in {"lexdone", "lexerror"}

Validated == valResult # Pending

\* The bracket walk of the documented validator over a token sequence:
\* push openers, pop on a closer of the family on top of the stack.  The
\* result is the outcome the documentation prescribes.
RECURSIVE Walk(_, _)
Walk(toks, stack) ==
  IF toks = <<>>
  THEN IF stack = <<>> THEN Returned ELSE Raised(NoClosing, stack[1])
  ELSE LET tok == Head(toks)
       IN  IF is_opening(tok) THEN Walk(Tail(toks), Append(stack, tok))
           ELSE IF is_closing(tok)
           THEN IF stack = <<>> \/ bracket_type(stack[Len(stack)]) # bracket_type(tok)
                THEN Raised(NoOpening, tok)
                ELSE Walk(Tail(toks), SubSeq(stack, 1, Len(stack) - 1))
           ELSE Walk(Tail(toks), stack)

Prescribed == Walk(tokens, <<>>)

\* The length of the source text a token was matched from
RawLen(tok) == IF tok.name = "string" THEN Len(tok.value) + 2 ELSE Len(tok.value)

\* The matches that yielded a token
TokenMatches == SelectSeq(matches, LAMBDA mt : rules[mt.rule] # None)

\* The source text of a match
Span(mt) == SubSeq(src, mt.start + 1, mt.start + mt.len)

RECURSIVE ConcatSpans(_)
ConcatSpans(ms) == IF ms = <<>> THEN <<>> ELSE Span(Head(ms)) \o ConcatSpans(Tail(ms))

Kinds ==
  { "string", "boolean", "assignment", "open_square", "open_curly",
    "close_square", "close_curly", "separator", "number" }

\* No rule of the table matches at cursor pos
NoRuleAt(pos) == \A i \in 1..Len(rules) : ~Match(i, Suffix(src, pos)).ok

\* The lexer is about to run a loop iteration at a cursor inside the source
AtCursor == pc = "lex" /\ position < Len(src)

\* ------------------------------------------------------------------------
\* C1
\* ------------------------------------------------------------------------

\* C1: when the document lexes successfully and its bracket tokens are
\* balanced and correctly nested (the empty document included), validate
\* raises no error and returns nothing.
C1_ValidDocumentSucceeds ==
  (Validated /\ pc = "lexdone" /\ Prescribed = Returned) => valResult = Returned

\* A nested, balanced document with a non-bracket token has been validated.
C1_Witness ==
  /\ Validated
  /\ pc = "lexdone"
  /\ Prescribed = Returned
  /\ Len(tokens) >= 5
  /\ \E k \in 1..Len(tokens) : tokens[k].name = "open_curly"
  /\ \E k \in 1..Len(tokens) : tokens[k].name = "open_square"
  /\ \E k \in 1..Len(tokens) : tokens[k].name = "number"

\* ------------------------------------------------------------------------
\* C2
\* ------------------------------------------------------------------------

\* C2: when an opening bracket is never closed and no closing bracket fails
\* to match, validate raises 'No closing token' for the earliest-pushed
\* opener still on the stack at the end of the stream.
C2_UnclosedOpenerReported ==
  (Validated /\ pc = "lexdone" /\ Prescribed.kind = NoClosing) => valResult = Prescribed

\* ------------------------------------------------------------------------
\* C3
\* ------------------------------------------------------------------------

\* C3: when a closing bracket arrives on an empty stack or on an opener of
\* the other family, validate raises 'No opening token' for the first such
\* closing token and reports nothing else.
C3_OrphanCloserReported ==
  (Validated /\ pc = "lexdone" /\ Prescribed.kind = NoOpening) => valResult = Prescribed

\* ------------------------------------------------------------------------
\* C4
\* ------------------------------------------------------------------------

\* C4: the spans of the successive rule matches tile the source: the first
\* starts at 0, each starts where the previous one ended, none is empty,
\* the last ends at the cursor, and once lex has run to completion the
\* cursor is len(source), the token positions are strictly increasing and
\* the concatenated spans are the source.
C4_SpansTileSource ==
  /\ \A k \in 1..Len(matches) :
       /\ matches[k].len >= 1
       /\ matches[k].start = IF k = 1 THEN 0 ELSE matches[k-1].start + matches[k-1].len
  /\ position = IF matches = <<>> THEN 0
                ELSE matches[Len(matches)].start + matches[Len(matches)].len
  /\ \A k \in 1..(Len(tokens) - 1) : tokens[k].position < tokens[k+1].position
  /\ pc = "lexdone" => (position = Len(src) /\ ConcatSpans(matches) = src)

\* lex ran to completion over a string, discarded whitespace and another
\* token.
C4_Witness ==
  /\ pc = "lexdone"
  /\ Len(matches) >= 3
  /\ Len(tokens) < Len(matches)
  /\ \E k \in 1..Len(tokens) : tokens[k].name = "string"

\* ------------------------------------------------------------------------
\* C5
\* ------------------------------------------------------------------------

C5_Failed ==
  pc = "lexerror" =>
    /\ errPos = position
    /\ errPos < Len(src)
    /\ NoRuleAt(errPos)
    /\ \A k \in 1..Len(tokens) : tokens[k].position + RawLen(tokens[k]) <= errPos

C5_NotFailed ==
  pc # "lexerror" => (errPos = -1 /\ (pc = "lexdone" => ~(position < Len(src))))

C5_Step ==
  /\ (AtCursor /\ NoRuleAt(position)) => (pc' = "lexerror" /\ tokens' = tokens)
  /\ (AtCursor /\ ~NoRuleAt(position)) => pc' = "lex"
  /\ pc = "lexerror" => (tokens' = tokens /\ pc' = "lexerror" /\ errPos' = errPos)

\* C5: lex raises 'Unrecognized token' exactly when the cursor is at a
\* position inside the source where none of the ten rules matches; the error
\* carries that position, every token yielded lies wholly before it and no
\* token is yielded afterwards.
C5_UnrecognizedToken == [](C5_Failed /\ C5_NotFailed) /\ [][C5_Step]_vars

\* lex failed at a position greater than 0 after yielding tokens.
C5_Witness ==
  /\ pc = "lexerror"
  /\ errPos >= 2
  /\ Len(tokens) >= 2

\* ------------------------------------------------------------------------
\* C6
\* ------------------------------------------------------------------------

\* C6: when lexing the document fails, validate ends in the lexical error:
\* it neither returns nor raises a bracket error.
C6_LexErrorPropagates ==
  (Validated /\ pc = "lexerror") => valResult.kind = Unrecognized

\* ------------------------------------------------------------------------
\* C7
\* ------------------------------------------------------------------------

\* The text a token of the rule of match mt carries: the inside of the
\* quotes for a string, the matched text otherwise.
CapturedText(mt) ==
  IF rules[mt.rule] = "string"
  THEN SubSeq(src, mt.start + 2, mt.start + mt.len - 1)
  ELSE Span(mt)

\* C7: every match is the match of the first rule, in table order, that
\* matches at the cursor; the tokens are, in order, the matches of the nine
\* named rules, each with the rule's kind, its captured text and the cursor
\* before the advance; whitespace matches yield no token.
C7_FirstRuleWins ==
  /\ \A k \in 1..Len(matches) :
       LET mt == matches[k]
       IN  /\ Match(mt.rule, Suffix(src, mt.start)).ok
           /\ Match(mt.rule, Suffix(src, mt.start)).len = mt.len
           /\ \A j \in 1..(mt.rule - 1) : ~Match(j, Suffix(src, mt.start)).ok
  /\ Len(tokens) = Len(TokenMatches)
  /\ \A k \in 1..Len(tokens) :
       /\ tokens[k].name = rules[TokenMatches[k].rule]
       /\ tokens[k].name \in Kinds
       /\ tokens[k].value = CapturedText(TokenMatches[k])
       /\ tokens[k].position = TokenMatches[k].start
  /\ \A k \in 1..Len(matches) :
       rules[matches[k].rule] = None =>
         /\ \A j \in 1..matches[k].len : IsSpace(src[matches[k].start + j])
         /\ \A n \in 1..Len(tokens) : tokens[n].position # matches[k].start

\* Whitespace was discarded between two tokens, the second of them not at
\* position 0.
C7_Witness ==
  /\ Len(tokens) >= 2
  /\ Len(matches) > Len(tokens)
  /\ rules[matches[2].rule] = None
  /\ tokens[2].position >= 2

\* ------------------------------------------------------------------------
\* C8
\* ------------------------------------------------------------------------

\* The indices of the double quotes after the one at the cursor
LaterQuotes == { k \in (position + 2)..Len(src) : src[k] = Quote }

\* ... that no newline separates from the cursor
LineQuotes == { k \in LaterQuotes : \A j \in (position + 2)..(k - 1) : src[j] # Newline }

AtQuote == AtCursor /\ src[position + 1] = Quote

\* lex yields the string token that ends at the quote with index last
YieldsStringTo(last) ==
  /\ tokens' = Append(tokens, Token("string", SubSeq(src, position + 2, last - 1), position))
  /\ position' = position + Len(SubSeq(src, position + 2, last - 1)) + 2
  /\ position' = last

\* C8 as stated: at a double quote with a later double quote anywhere in
\* the source, lex yields one string token that runs to the last double
\* quote of the remaining text.
C8_GreedyToLastQuote ==
  [][(AtQuote /\ LaterQuotes # {}) => YieldsStringTo(Max(LaterQuotes))]_vars

\* C8 amended: at a double quote with a later double quote before the next
\* newline, lex yields one string token that runs to the last double quote
\* before that newline; its text is what lies between the two quotes and
\* the cursor advances by the text length plus 2.  With no later quote
\* before the next newline lex raises the error at the cursor.
C8_GreedyToLastQuoteOfLine ==
  [][/\ (AtQuote /\ LineQuotes # {}) => YieldsStringTo(Max(LineQuotes))
     /\ (AtQuote /\ LineQuotes = {}) => (pc' = "lexerror" /\ errPos' = position)]_vars

\* A string token that swallowed a quote was yielded from a source with a
\* further quote on a later line.
C8_Witness ==
  /\ \E k \in 1..Len(tokens) :
       /\ tokens[k].name = "string"
       /\ \E j \in 1..Len(tokens[k].value) : tokens[k].value[j] = Quote
       /\ \E n \in 1..Len(src) :
            /\ n > tokens[k].position + RawLen(tokens[k])
            /\ src[n] = Quote

\* ------------------------------------------------------------------------
\* C9
\* ------------------------------------------------------------------------

\* The length of the run of digits, '.' and '-' that starts at the cursor
SignedRun == SignedRunLen(src, position + 1)

\* The cursor is at the start of a maximal run of digits, '.' and '-' that
\* has a digit in it
AtSignedRun ==
  /\ AtCursor
  /\ SignedRun >= 1
  /\ position > 0 => ~IsSignedNumChar(src[position])
  /\ \E j \in (position + 1)..(position + SignedRun) : IsDigit(src[j])

\* lex yields the number token of the n characters at the cursor
YieldsNumber(n) ==
  /\ tokens' = Append(tokens, Token("number", SubSeq(src, position + 1, position + n), position))
  /\ position' = position + n

\* C9 as stated: a maximal run of digits, '.' and '-' lexes as one number
\* token whose text is the whole run, without error.
C9_WholeRunIsOneNumber ==
  [][AtSignedRun => YieldsNumber(SignedRun)]_vars

\* The optional sign at the cursor and the run of digits and '.' after it
Sign == IF src[position + 1] = "-" THEN 1 ELSE 0
UnsignedRun == RunLen(src, position + Sign + 1, "num")

\* C9 amended: the number rule accepts several '.' but '-' only as one
\* leading sign: at an optional '-' followed by at least one digit or '.',
\* lex yields one number token whose text is the sign and the maximal run
\* of digits and '.' after it; a '-' not followed by a digit or '.' raises
\* the error at the cursor.
C9_SignedRunIsOneNumber ==
  [][/\ (AtCursor /\ UnsignedRun >= 1) => YieldsNumber(Sign + UnsignedRun)
     /\ (AtCursor /\ Sign = 1 /\ UnsignedRun = 0) => (pc' = "lexerror" /\ errPos' = position)]_vars

\* A number with a sign and two '.' was yielded, and lex then failed at a
\* second '-'.
C9_Witness ==
  /\ pc = "lexerror"
  /\ src[errPos + 1] = "-"
  /\ \E k \in 1..Len(tokens) :
       /\ tokens[k].name = "number"
       /\ tokens[k].value[1] = "-"
       /\ Cardinality({ j \in 1..Len(tokens[k].value) : tokens[k].value[j] = "." }) >= 2

\* ------------------------------------------------------------------------
\* C10
\* ------------------------------------------------------------------------

C10_Safe ==
  /\ position <= Len(src)
  /\ \A k \in 1..Len(matches) : matches[k].len >= 1
  /\ LexFinished => (pc = "lexdone" <=> position = Len(src))
  /\ (LexFinished /\ src = <<>>) => (pc = "lexdone" /\ tokens = <<>>)

C10_Step ==
  pc = "lex" => \/ pc' = "lexerror"
                \/ pc' = "lexdone" /\ position = Len(src)
                \/ pc' = "lex" /\ position' >= position + 1

\* C10: lex terminates: every loop iteration raises the error or advances
\* the cursor by at least one character, the cursor never exceeds
\* len(source), lex ends successfully exactly when the cursor is
\* len(source), and the empty source yields no token and no error.
C10_LexTerminates == <>LexFinished /\ []C10_Safe /\ [][C10_Step]_vars

\* lex finished after more than one loop iteration.
C10_Witness ==
  /\ pc = "lexdone"
  /\ Len(matches) >= 3
  /\ position = Len(src)

====
